---- MODULE Spec2Model ----
(***************************************************************************)
(* State-machine model of the Game & Watch retro-go flash filesystem       *)
(* layer (filesystem.c): the file handle pool, the compression slot       *)
(* arbiter, mount/format at init with the boot counter, and the public     *)
(* open/read/write/close/seek API on top of LittleFS.                    *)
(*                                                                         *)
(* The C functions are modelled as operators over a record `m` holding    *)
(* the globals of the translation unit; the actions apply them to the     *)
(* variables.  LittleFS itself is not part of the repository: it is      *)
(* modelled as an abstract store (the lfs_* operators).                   *)
(***************************************************************************)
EXTENDS Integers, Sequences, FiniteSets, TLC

(***************************************************************************)
(* Program constants                                                       *)
(***************************************************************************)
MAX_OPEN_FILES == 2

\* The null pointer, as a handle value; slot i's handle is the number i.
NULL == -1

\* LittleFS error codes returned by the modelled library calls.
LFS_ERR_NOENT == -2
LFS_ERR_BADF == -9
LFS_ERR_CORRUPT == -84
LFS_ERR_INVAL == -22

(***************************************************************************)
(* Bounds of the model                                                     *)
(***************************************************************************)
\* Largest file offset a caller writes up to or seeks to, and the largest
\* size a caller reads.
MaxLen == 2
\* Number of filesystem_init calls in one run.
MaxInits == 2
\* Number of filesystem_read / filesystem_write / filesystem_seek calls in
\* one run.
MaxIO == 1
\* Number of release_file_handle calls on a handle that is not held.
MaxMisuse == 1
\* Number of write sessions of one write / read-back sequence.
MaxRounds == 2

Slots == 0 .. (MAX_OPEN_FILES - 1)

\* A pointer that is not the file object of any pool slot.
OUTSIDE == MAX_OPEN_FILES

Paths == {"boot_counter", "sav"}

\* The paths callers open (boot_counter is the file filesystem_init keeps).
UserPaths == {"sav"}

\* The byte sequences callers write.
Data == {<< 1 >>, << 1, 2 >>}

\* Readings of the wall clock: 0 is the invalid reading.
ClockVals == {0, 1}

(***************************************************************************)
(* uint8_t bit operations on the allocation bitmask                        *)
(***************************************************************************)
\* test_bit is a power of two
BitIsSet(mask, test_bit) == (mask \div test_bit) % 2 = 1

BitSet(mask, test_bit) == IF BitIsSet(mask, test_bit) THEN mask ELSE mask + test_bit

BitClear(mask, test_bit) == IF BitIsSet(mask, test_bit) THEN mask - test_bit ELSE mask

\* uint32_t boot_count as its 4 little-endian bytes in memory: the bytes a
\* read of at most 4 bytes leaves in it (bytes not read keep their initial 0).
Pad4(buf) == [k \in 1 .. 4 |-> IF k <= Len(buf) THEN buf[k] ELSE 0]

\* boot_count += 1 on the 4 bytes, from byte k on (wraps at 2^32).
RECURSIVE IncBytes(_, _)
IncBytes(b, k) ==
    IF k > 4 THEN b
    ELSE IF b[k] = 255 THEN IncBytes([b EXCEPT ![k] = 0], k + 1)
    ELSE [b EXCEPT ![k] = b[k] + 1]

(***************************************************************************)
(* Data model                                                              *)
(***************************************************************************)
\* lfs_file_t after memset(0) / static zero initialisation.
ZeroFile == [path |-> "", flags |-> {}, pos |-> 0, data |-> << >>, dirty |-> FALSE]

\* struct lfs_attr after memset(0).
ZeroAttr == [type |-> "", size |-> 0, buffer |-> "NULL"]

\* filesystem_file_handle_t after memset(0).
ZeroHandle == [file |-> ZeroFile, attr |-> ZeroAttr, cfg |-> FALSE]

\* The flash region: erased, or holding a LittleFS image with files.
BlankFlash ==
    [formatted |-> FALSE, exists |-> {}, data |-> [p \in Paths |-> << >>],
     time |-> [p \in Paths |-> 0]]

EmptyStore == [BlankFlash EXCEPT !.formatted = TRUE]

(***************************************************************************)
(* The translation unit's globals, as one record m:                        *)
(*   used     file_handles_used_bitmask                                    *)
(*   comp     file_index_using_compression                                 *)
(*   handles  file_handles[MAX_OPEN_FILES]                                 *)
(*   flash    filesystem_partition (the LittleFS image on flash)           *)
(*   lfs      the lfs_t instance: mounted, and the set of file objects     *)
(*            LittleFS has registered as open (its mlist)                  *)
(*   asserts  whether the LittleFS build checks LFS_ASSERT                 *)
(*   halted   an assert of the program failed (fatal, nothing runs after)  *)
(*   nformat  number of lfs_format calls that reformatted the flash        *)
(***************************************************************************)
Halt(m) == [m EXCEPT !.halted = TRUE]

(***************************************************************************)
(* File handle pool and compression slot arbiter                           *)
(***************************************************************************)
file_is_using_compression(m, file) ==
    \E i \in Slots : file = i /\ i = m.comp

\* acquire_scan that does not set the allocation bit of the slot it takes.
RECURSIVE acquire_scan_unmarked(_, _, _, _)
acquire_scan_unmarked(m, use_compression, i, test_bit) ==
    IF i >= MAX_OPEN_FILES
    THEN [m |-> m, ret |-> NULL]
    ELSE IF ~BitIsSet(m.used, test_bit)
         THEN IF use_compression /\ m.comp >= 0
              THEN [m |-> m, ret |-> NULL]
              ELSE [m |-> [m EXCEPT
                             !.comp = IF use_compression THEN i ELSE m.comp,
                             !.handles[i] = ZeroHandle],
                    ret |-> i]
         ELSE acquire_scan_unmarked(m, use_compression, i + 1, (test_bit * 2) % 256)

\* acquire_scan that does not check whether the compression slot is owned.
RECURSIVE acquire_scan_unchecked(_, _, _, _)
acquire_scan_unchecked(m, use_compression, i, test_bit) ==
    IF i >= MAX_OPEN_FILES
    THEN [m |-> m, ret |-> NULL]
    ELSE IF ~BitIsSet(m.used, test_bit)
         THEN [m |-> [m EXCEPT
                        !.used = BitSet(m.used, test_bit),
                        !.comp = IF use_compression THEN i ELSE m.comp,
                        !.handles[i] = ZeroHandle],
               ret |-> i]
         ELSE acquire_scan_unchecked(m, use_compression, i + 1, (test_bit * 2) % 256)

\* The scan of acquire_file_handle from slot i on, test_bit being 1 << i.
RECURSIVE acquire_scan(_, _, _, _)
acquire_scan(m, use_compression, i, test_bit) ==
    IF i >= MAX_OPEN_FILES
    THEN [m |-> m, ret |-> NULL]
    ELSE IF ~BitIsSet(m.used, test_bit)
         THEN LET m1 == [m EXCEPT !.used = BitSet(m.used, test_bit)]
              IN  IF use_compression /\ m1.comp >= 0
                  THEN [m |-> m1, ret |-> NULL]
                  ELSE [m |-> [m1 EXCEPT
                                 !.comp = IF use_compression THEN i ELSE m1.comp,
                                 !.handles[i] = ZeroHandle],
                        ret |-> i]
         ELSE acquire_scan(m, use_compression, i + 1, (test_bit * 2) % 256)

acquire_file_handle(m, use_compression) ==
    acquire_scan(m, use_compression, 0, 1)

\* The scan of release_file_handle from slot i on; test_bit is never shifted.
RECURSIVE release_scan(_, _, _, _)
release_scan(m, file, i, test_bit) ==
    IF i >= MAX_OPEN_FILES
    THEN Halt(m)
    ELSE IF file = i
         THEN LET m1 == [m EXCEPT !.used = BitClear(m.used, test_bit)]
              IN  IF file_is_using_compression(m1, file)
                  THEN [m1 EXCEPT !.comp = -1]
                  ELSE m1
         ELSE release_scan(m, file, i + 1, test_bit)

release_file_handle(m, file) ==
    release_scan(m, file, 0, 1)

(***************************************************************************)
(* LittleFS, as an abstract store.  Data written through a file object     *)
(* reaches the flash image when the file is closed; a file created by an   *)
(* open exists from that open on.  LFS_ASSERT guards the file calls        *)
(* against a file object that is (not) registered as open.                 *)
(***************************************************************************)
lfs_mount(m) ==
    IF m.flash.formatted
    THEN [m |-> [m EXCEPT !.lfs = [mounted |-> TRUE, mlist |-> {}]], err |-> 0]
    ELSE [m |-> [m EXCEPT !.lfs = [mounted |-> FALSE, mlist |-> {}]],
          err |-> LFS_ERR_CORRUPT]

\* device_ok: whether the flash accepts the erase/program of the format.
lfs_format(m, device_ok) ==
    IF device_ok
    THEN [m |-> [m EXCEPT !.flash = EmptyStore, !.nformat = @ + 1], err |-> 0]
    ELSE [m |-> m, err |-> LFS_ERR_INVAL]

lfs_file_opencfg(m, file, path, flags) ==
    IF file \notin Slots \/ (file \in m.lfs.mlist /\ m.asserts)
    THEN [m |-> Halt(m), err |-> 0]
    ELSE IF path \notin m.flash.exists /\ "LFS_O_CREAT" \notin flags
    THEN [m |-> m, err |-> LFS_ERR_NOENT]
    ELSE [m |-> [m EXCEPT
                   !.flash.exists = @ \cup {path},
                   !.handles[file].file =
                       [path |-> path, flags |-> flags, pos |-> 0,
                        data |-> IF "LFS_O_TRUNC" \in flags THEN << >>
                                 ELSE m.flash.data[path],
                        dirty |-> "LFS_O_WRONLY" \in flags],
                   !.lfs.mlist = @ \cup {file}],
          err |-> 0]

\* `data` with `bytes` stored at offset `pos` (a gap is filled with zeros).
Overwrite(data, pos, bytes) ==
    LET n == IF Len(data) > pos + Len(bytes) THEN Len(data) ELSE pos + Len(bytes)
    IN  [k \in 1 .. n |->
            IF k > pos /\ k <= pos + Len(bytes) THEN bytes[k - pos]
            ELSE IF k <= Len(data) THEN data[k] ELSE 0]

\* A file call on a pointer outside the pool (boot_counter passes NULL on
\* when its open failed) or, with LFS_ASSERT, on a file object that is not
\* open: no store state changes; the caller's next assert ends the run.
BadFile(m, file) ==
    file \notin Slots \/ (file \notin m.lfs.mlist /\ m.asserts)

lfs_file_write(m, file, bytes) ==
    IF BadFile(m, file)
    THEN [m |-> IF m.asserts THEN Halt(m) ELSE m, ret |-> LFS_ERR_BADF]
    ELSE LET f == m.handles[file].file
             at == IF "LFS_O_APPEND" \in f.flags /\ f.pos < Len(f.data)
                   THEN Len(f.data) ELSE f.pos
         IN  IF "LFS_O_WRONLY" \notin f.flags
             THEN [m |-> IF m.asserts THEN Halt(m) ELSE m, ret |-> LFS_ERR_BADF]
             ELSE [m |-> [m EXCEPT !.handles[file].file =
                             [f EXCEPT !.data = Overwrite(f.data, at, bytes),
                                       !.pos = at + Len(bytes),
                                       !.dirty = TRUE]],
                   ret |-> Len(bytes)]

lfs_file_read(m, file, size) ==
    IF BadFile(m, file)
    THEN [m |-> IF m.asserts THEN Halt(m) ELSE m, ret |-> LFS_ERR_BADF,
          buf |-> << >>]
    ELSE LET f == m.handles[file].file
             avail == IF Len(f.data) > f.pos THEN Len(f.data) - f.pos ELSE 0
             n == IF size < avail THEN size ELSE avail
         IN  IF "LFS_O_RDONLY" \notin f.flags
             THEN [m |-> IF m.asserts THEN Halt(m) ELSE m, ret |-> LFS_ERR_BADF,
                   buf |-> << >>]
             ELSE [m |-> [m EXCEPT !.handles[file].file.pos = f.pos + n],
                   ret |-> n,
                   buf |-> SubSeq(f.data, f.pos + 1, f.pos + n)]

\* attr_value: the 4 bytes LittleFS reads through file_attrs[0].buffer when
\* it commits the file's attributes.
lfs_file_close(m, file, attr_value) ==
    IF BadFile(m, file)
    THEN [m |-> IF m.asserts THEN Halt(m) ELSE m, err |-> 0]
    ELSE LET f == m.handles[file].file
             m1 == [m EXCEPT !.lfs.mlist = @ \ {file},
                             !.handles[file].file.dirty = FALSE]
         IN  IF f.dirty /\ "LFS_O_WRONLY" \in f.flags /\ f.path \in Paths
             THEN [m |-> [m1 EXCEPT !.flash.exists = @ \cup {f.path},
                                    !.flash.data[f.path] = f.data,
                                    !.flash.time[f.path] = attr_value],
                   err |-> 0]
             ELSE [m |-> m1, err |-> 0]

lfs_file_seek(m, file, off, whence) ==
    IF BadFile(m, file)
    THEN [m |-> IF m.asserts THEN Halt(m) ELSE m, ret |-> LFS_ERR_BADF]
    ELSE LET f == m.handles[file].file
             npos == CASE whence = "LFS_SEEK_SET" -> off
                       [] whence = "LFS_SEEK_CUR" -> f.pos + off
                       [] OTHER -> Len(f.data) + off
         IN  IF npos < 0
             THEN [m |-> m, ret |-> LFS_ERR_INVAL]
             ELSE [m |-> [m EXCEPT !.handles[file].file.pos = npos], ret |-> npos]

(***************************************************************************)
(* Public file API                                                         *)
(***************************************************************************)
\* OpenFlags that opens for writing in append mode.
OpenFlags_append(write_mode) ==
    IF write_mode THEN {"LFS_O_WRONLY", "LFS_O_CREAT", "LFS_O_APPEND"}
    ELSE {"LFS_O_RDONLY"}

OpenFlags(write_mode) ==
    IF write_mode THEN {"LFS_O_WRONLY", "LFS_O_CREAT"} ELSE {"LFS_O_RDONLY"}

\* current_time: the value GW_GetUnixTime() returns during this call.
filesystem_open(m, path, write_mode, use_compression, current_time) ==
    LET flags == OpenFlags(write_mode)
        a == acquire_file_handle(m, use_compression)
        h == a.ret
    IN  IF h = NULL
        THEN [m |-> a.m, ret |-> NULL]
        ELSE IF use_compression
        THEN [m |-> Halt(a.m), ret |-> NULL]
        ELSE LET m1 == [a.m EXCEPT !.handles[h].cfg = TRUE]
             IN  IF current_time = 0
                 THEN [m |-> Halt(m1), ret |-> NULL]
                 ELSE LET m2 == [m1 EXCEPT !.handles[h].attr =
                                     [type |-> "t", size |-> 4,
                                      buffer |-> "current_time"]]
                          o == lfs_file_opencfg(m2, h, path, flags)
                      IN  IF o.m.halted \/ o.err # 0
                          THEN [m |-> Halt(o.m), ret |-> NULL]
                          ELSE [m |-> o.m, ret |-> h]

filesystem_write(m, file, data) ==
    IF file_is_using_compression(m, file)
    THEN [m |-> Halt(m), ret |-> 0]
    ELSE lfs_file_write(m, file, data)

filesystem_read(m, file, size) ==
    IF file_is_using_compression(m, file)
    THEN [m |-> Halt(m), ret |-> 0, buf |-> << >>]
    ELSE lfs_file_read(m, file, size)

filesystem_close(m, file, attr_value) ==
    IF file_is_using_compression(m, file)
    THEN Halt(m)
    ELSE LET c == lfs_file_close(m, file, attr_value)
         IN  IF c.m.halted \/ c.err < 0
             THEN Halt(c.m)
             ELSE release_file_handle(c.m, file)

\* filesystem_seek without the test of the compression owner.
filesystem_seek_raw(m, file, off, whence) ==
    lfs_file_seek(m, file, off, whence)

filesystem_seek(m, file, off, whence) ==
    IF file_is_using_compression(m, file)
    THEN [m |-> Halt(m), ret |-> 0]
    ELSE lfs_file_seek(m, file, off, whence)

(***************************************************************************)
(* Mount manager and the boot counter                                      *)
(***************************************************************************)
\* Sequencing of calls: K applied to the value of e.
Then(e, K(_)) == CHOOSE y \in {K(x) : x \in {e}} : TRUE

\* Each call is skipped once the run is halted.
boot_counter(m, current_time, attr_value) ==
    Then(filesystem_open(m, "boot_counter", FALSE, FALSE, current_time),
    LAMBDA o1 :
    Then(IF o1.m.halted THEN [m |-> o1.m, ret |-> 0, buf |-> << >>]
         ELSE filesystem_read(o1.m, o1.ret, 4),
    LAMBDA r :
    Then(IF r.m.halted THEN r.m ELSE filesystem_close(r.m, o1.ret, attr_value),
    LAMBDA c1 :
    Then(IF c1.halted THEN [m |-> c1, ret |-> NULL]
         ELSE filesystem_open(c1, "boot_counter", TRUE, FALSE, current_time),
    LAMBDA o2 :
    Then(IF o2.m.halted THEN [m |-> o2.m, ret |-> 0]
         ELSE filesystem_write(o2.m, o2.ret, IncBytes(Pad4(r.buf), 1)),
    LAMBDA w :
    IF w.m.halted THEN w.m
    ELSE IF w.ret # 4 THEN Halt(w.m)
    ELSE filesystem_close(w.m, o2.ret, attr_value))))))

\* filesystem_init that formats without trying to mount first.
filesystem_init_reformat(m, device_ok, current_time, attr_value) ==
    Then(lfs_format(m, device_ok),
    LAMBDA fm :
    IF fm.err # 0 THEN Halt(fm.m)
    ELSE Then(lfs_mount(fm.m),
         LAMBDA mt2 :
         IF mt2.err # 0 THEN Halt(mt2.m)
         ELSE boot_counter(mt2.m, current_time, attr_value)))

filesystem_init(m, device_ok, current_time, attr_value) ==
    Then(lfs_mount(m),
    LAMBDA mt :
    IF mt.err = 0
    THEN boot_counter(mt.m, current_time, attr_value)
    ELSE Then(lfs_format(mt.m, device_ok),
         LAMBDA fm :
         IF fm.err # 0 THEN Halt(fm.m)
         ELSE Then(lfs_mount(fm.m),
              LAMBDA mt2 :
              IF mt2.err # 0 THEN Halt(mt2.m)
              ELSE boot_counter(mt2.m, current_time, attr_value))))

(***************************************************************************)
(* State                                                                   *)
(***************************************************************************)
VARIABLES
    file_handles_used_bitmask,    \* uint8_t allocation bitmask of the pool
    file_index_using_compression, \* int8_t owner of the compression slot, or -1
    file_handles,                 \* the MAX_OPEN_FILES pool slots
    filesystem_partition,         \* the flash region's LittleFS image
    lfs,                          \* the lfs_t instance
    lfs_asserts,                  \* the build checks LFS_ASSERT
    halted,                       \* a fatal assertion has failed
    nformat,                      \* lfs_format calls that formatted
    held,                         \* per slot: handles returned and not yet closed
    last,                         \* the last call, its arguments and its result
    inits,                        \* filesystem_init calls so far
    ios,                          \* read / write / seek calls so far
    misuses,                      \* releases of a handle that is not held
    rt,                           \* progress of the write / read-back sequence
    build,                        \* which filesystem.c of the tree is compiled
    dcache_enabled,               \* the data cache is enabled
    dcache_lines,                 \* flash addresses the data cache holds lines of
    mmap_mode,                    \* the OSPI flash is in memory-mapped mode
    ospi_last,                    \* the last program / erase the flash executed
    cb                            \* the block-device callback in progress

vars ==
    << file_handles_used_bitmask, file_index_using_compression, file_handles,
       filesystem_partition, lfs, lfs_asserts, halted, nformat, held, last, inits, ios,
       misuses, rt, build, dcache_enabled, dcache_lines, mmap_mode, ospi_last, cb >>

\* The flash device, its cache and the block-device callback.
device == << build, dcache_enabled, dcache_lines, mmap_mode, ospi_last, cb >>

\* The globals as the record the operators work on.
M ==
    [used |-> file_handles_used_bitmask, comp |-> file_index_using_compression,
     handles |-> file_handles, flash |-> filesystem_partition, lfs |-> lfs,
     asserts |-> lfs_asserts, halted |-> halted, nformat |-> nformat]

\* The globals become m.
Becomes(m) ==
    /\ file_handles_used_bitmask' = m.used
    /\ file_index_using_compression' = m.comp
    /\ file_handles' = m.handles
    /\ filesystem_partition' = m.flash
    /\ lfs' = m.lfs
    /\ lfs_asserts' = m.asserts
    /\ halted' = m.halted
    /\ nformat' = m.nformat

\* No write / read-back sequence in progress.
NoTrip == [stage |-> 0, path |-> "", data |-> << >>, file |-> NULL,
           ret |-> 0, got |-> << >>, rounds |-> 0]

NoCall ==
    [op |-> "none", ret |-> 0, file |-> NULL, path |-> "", write_mode |-> FALSE,
     use_compression |-> FALSE, current_time |-> 0, device_ok |-> TRUE]

\* Flash contents the device can boot with: erased flash, or a LittleFS
\* image holding none, one or both of the files.
StoreWith(E) ==
    [formatted |-> TRUE, exists |-> E,
     data |-> [p \in Paths |-> IF p \notin E THEN << >>
                               ELSE IF p = "boot_counter" THEN << 1, 0, 0, 0 >>
                               ELSE << 2, 1 >>],
     time |-> [p \in Paths |-> IF p \in E THEN 1 ELSE 0]]

BootImages == {BlankFlash} \cup {StoreWith(E) : E \in SUBSET Paths}

\* No block-device callback in progress.
NoCallback ==
    [fn |-> "none", pc |-> 0, block |-> 0, off |-> 0, address |-> 0,
     trace |-> << >>]

\* No program or erase executed yet.
NoOspi == [op |-> "none", address |-> 0, mmap_mode |-> FALSE,
           dcache_enabled |-> FALSE]

\* The device as the startup code leaves it: flash memory-mapped, data cache
\* on and empty.
DeviceInit ==
    /\ dcache_enabled = TRUE
    /\ dcache_lines = {}
    /\ mmap_mode = TRUE
    /\ ospi_last = NoOspi
    /\ cb = NoCallback

ProgramInit ==
    /\ file_handles_used_bitmask = 0
    /\ file_index_using_compression = -1
    /\ file_handles = [i \in Slots |-> ZeroHandle]
    /\ filesystem_partition \in BootImages
    /\ lfs = [mounted |-> FALSE, mlist |-> {}]
    /\ lfs_asserts \in BOOLEAN
    /\ halted = FALSE
    /\ nformat = 0
    /\ held = [i \in Slots |-> 0]
    /\ last = NoCall
    /\ inits = 0
    /\ ios = 0
    /\ misuses = 0
    /\ rt = NoTrip
    /\ DeviceInit

\* The build of src/unnamed/part_001, the filesystem.c with the handle pool.
Init ==
    /\ ProgramInit
    /\ build = "part_001"

Count == held[0] + held[1]

\* The variables only the pool-level and the round-trip specifications use.
harness == << misuses, rt >>

(***************************************************************************)
(* Actions: the calls a client makes                                       *)
(***************************************************************************)
InitCall ==
    /\ ~halted
    /\ inits < MaxInits
    /\ \E device_ok \in BOOLEAN, t \in ClockVals, g \in ClockVals :
          /\ Becomes(filesystem_init(M, device_ok, t, g))
          /\ last' = [NoCall EXCEPT !.op = "init", !.current_time = t,
                                    !.device_ok = device_ok]
    /\ inits' = inits + 1
    /\ UNCHANGED << held, ios, harness, device >>

OpenCall ==
    /\ ~halted
    /\ lfs.mounted
    /\ \E path \in UserPaths, wm \in BOOLEAN, uc \in BOOLEAN, t \in ClockVals :
          LET o == filesystem_open(M, path, wm, uc, t)
          IN  /\ Becomes(o.m)
              /\ held' = IF o.ret \in Slots
                         THEN [held EXCEPT ![o.ret] = @ + 1] ELSE held
              /\ last' = [NoCall EXCEPT !.op = "open", !.ret = o.ret,
                                        !.file = o.ret, !.path = path,
                                        !.write_mode = wm,
                                        !.use_compression = uc,
                                        !.current_time = t]
    /\ UNCHANGED << inits, ios, harness, device >>

WriteCall ==
    /\ ~halted
    /\ ios < MaxIO
    /\ \E file \in Slots, data \in Data :
          /\ held[file] > 0
          /\ file_handles[file].file.pos + Len(data) <= MaxLen
          /\ LET w == filesystem_write(M, file, data)
             IN  /\ Becomes(w.m)
                 /\ last' = [NoCall EXCEPT !.op = "write", !.ret = w.ret,
                                           !.file = file]
    /\ ios' = ios + 1
    /\ UNCHANGED << held, inits, harness, device >>

ReadCall ==
    /\ ~halted
    /\ ios < MaxIO
    /\ \E file \in Slots, size \in 1 .. MaxLen :
          /\ held[file] > 0
          /\ LET r == filesystem_read(M, file, size)
             IN  /\ Becomes(r.m)
                 /\ last' = [NoCall EXCEPT !.op = "read", !.ret = r.ret,
                                           !.file = file]
    /\ ios' = ios + 1
    /\ UNCHANGED << held, inits, harness, device >>

SeekCall ==
    /\ ~halted
    /\ ios < MaxIO
    /\ \E file \in Slots, off \in {0, 1} :
          /\ held[file] > 0
          /\ LET k == filesystem_seek(M, file, off, "LFS_SEEK_SET")
             IN  /\ Becomes(k.m)
                 /\ last' = [NoCall EXCEPT !.op = "seek", !.ret = k.ret,
                                           !.file = file]
    /\ ios' = ios + 1
    /\ UNCHANGED << held, inits, harness, device >>

CloseCall ==
    /\ ~halted
    /\ \E file \in Slots, g \in ClockVals :
          /\ held[file] > 0
          /\ Becomes(filesystem_close(M, file, g))
          /\ held' = [held EXCEPT ![file] = @ - 1]
          /\ last' = [NoCall EXCEPT !.op = "close", !.file = file]
    /\ UNCHANGED << inits, ios, harness, device >>

Next ==
    \/ InitCall
    \/ OpenCall
    \/ WriteCall
    \/ ReadCall
    \/ SeekCall
    \/ CloseCall

Spec == Init /\ [][Next]_vars

(***************************************************************************)
(* Pool-level specification: the static functions of the pool called       *)
(* directly (filesystem_open never gets past its compression stub, so the  *)
(* compression arbiter is exercised at this level), and filesystem_close   *)
(* on the handle that owns the compression slot.                           *)
(***************************************************************************)
PoolInit ==
    /\ Init
    /\ filesystem_partition = StoreWith(Paths)

AcquireCall ==
    /\ ~halted
    /\ \E uc \in BOOLEAN :
          LET a == acquire_file_handle(M, uc)
          IN  /\ Becomes(a.m)
              /\ held' = IF a.ret \in Slots
                         THEN [held EXCEPT ![a.ret] = @ + 1] ELSE held
              /\ last' = [NoCall EXCEPT !.op = "acquire", !.ret = a.ret,
                                        !.file = a.ret, !.use_compression = uc]
    /\ UNCHANGED << inits, ios, harness, device >>

ReleaseCall ==
    /\ ~halted
    /\ \E file \in Slots \cup {OUTSIDE} :
          LET tracked == file \in Slots /\ held[file] > 0
          IN  /\ tracked \/ misuses < MaxMisuse
              /\ Becomes(release_file_handle(M, file))
              /\ held' = IF tracked THEN [held EXCEPT ![file] = @ - 1] ELSE held
              /\ misuses' = IF tracked THEN misuses ELSE misuses + 1
              /\ last' = [NoCall EXCEPT !.op = "release", !.file = file]
    /\ UNCHANGED << inits, ios, rt, device >>

CloseOwnerCall ==
    /\ ~halted
    /\ \E file \in Slots, g \in ClockVals :
          /\ held[file] > 0
          /\ file_is_using_compression(M, file)
          /\ Becomes(filesystem_close(M, file, g))
          /\ held' = IF halted' THEN held ELSE [held EXCEPT ![file] = @ - 1]
          /\ last' = [NoCall EXCEPT !.op = "close", !.file = file]
    /\ UNCHANGED << inits, ios, harness, device >>

PoolNext ==
    \/ AcquireCall
    \/ ReleaseCall
    \/ CloseOwnerCall

PoolSpec == PoolInit /\ [][PoolNext]_vars

(***************************************************************************)
(* Round-trip specification: after a boot and any opens and closes of      *)
(* other handles, a client writes `data` to `path` in one write session    *)
(* (open for writing, one write, close), possibly a second session with    *)
(* other data, then opens the path for reading and reads Len(data) bytes.  *)
(* Stage 6: an open of the sequence returned no handle.                    *)
(***************************************************************************)
TripSetup ==
    /\ rt.stage = 0
    /\ InitCall \/ OpenCall \/ CloseCall

TripOpenWrite ==
    /\ ~halted
    /\ lfs.mounted
    /\ rt.stage \in {0, 3}
    /\ rt.rounds < MaxRounds
    /\ \E path \in Paths, data \in Data, t \in ClockVals :
          /\ rt.stage = 3 => path = rt.path
          /\ LET o == filesystem_open(M, path, TRUE, FALSE, t)
             IN  /\ Becomes(o.m)
                 /\ held' = IF o.ret \in Slots
                            THEN [held EXCEPT ![o.ret] = @ + 1] ELSE held
                 /\ rt' = IF o.ret \in Slots
                          THEN [NoTrip EXCEPT !.stage = 1, !.path = path,
                                              !.data = data, !.file = o.ret,
                                              !.rounds = rt.rounds + 1]
                          ELSE [NoTrip EXCEPT !.stage = 6]
                 /\ last' = [NoCall EXCEPT !.op = "open", !.ret = o.ret,
                                           !.file = o.ret, !.path = path,
                                           !.write_mode = TRUE,
                                           !.current_time = t]
    /\ UNCHANGED << inits, ios, misuses, device >>

TripWrite ==
    /\ ~halted
    /\ rt.stage = 1
    /\ LET w == filesystem_write(M, rt.file, rt.data)
       IN  /\ Becomes(w.m)
           /\ rt' = [rt EXCEPT !.stage = 2, !.ret = w.ret]
           /\ last' = [NoCall EXCEPT !.op = "write", !.ret = w.ret,
                                     !.file = rt.file]
    /\ UNCHANGED << held, inits, ios, misuses, device >>

TripCloseWrite ==
    /\ ~halted
    /\ rt.stage = 2
    /\ \E g \in ClockVals :
          /\ Becomes(filesystem_close(M, rt.file, g))
          /\ held' = [held EXCEPT ![rt.file] = @ - 1]
          /\ rt' = [rt EXCEPT !.stage = 3]
          /\ last' = [NoCall EXCEPT !.op = "close", !.file = rt.file]
    /\ UNCHANGED << inits, ios, misuses, device >>

TripOpenRead ==
    /\ ~halted
    /\ rt.stage = 3
    /\ \E t \in ClockVals :
          LET o == filesystem_open(M, rt.path, FALSE, FALSE, t)
          IN  /\ Becomes(o.m)
              /\ held' = IF o.ret \in Slots
                         THEN [held EXCEPT ![o.ret] = @ + 1] ELSE held
              /\ rt' = IF o.ret \in Slots
                       THEN [rt EXCEPT !.stage = 4, !.file = o.ret]
                       ELSE [NoTrip EXCEPT !.stage = 6]
              /\ last' = [NoCall EXCEPT !.op = "open", !.ret = o.ret,
                                        !.file = o.ret, !.path = rt.path,
                                        !.current_time = t]
    /\ UNCHANGED << inits, ios, misuses, device >>

TripRead ==
    /\ ~halted
    /\ rt.stage = 4
    /\ LET r == filesystem_read(M, rt.file, Len(rt.data))
       IN  /\ Becomes(r.m)
           /\ rt' = [rt EXCEPT !.stage = 5, !.ret = r.ret, !.got = r.buf]
           /\ last' = [NoCall EXCEPT !.op = "read", !.ret = r.ret,
                                     !.file = rt.file]
    /\ UNCHANGED << held, inits, ios, misuses, device >>

TripNext ==
    \/ TripSetup
    \/ TripOpenWrite
    \/ TripWrite
    \/ TripCloseWrite
    \/ TripOpenRead
    \/ TripRead

RoundTripSpec == Init /\ [][TripNext]_vars

(***************************************************************************)
(* Flash block device: the LittleFS callbacks littlefs_api_read,           *)
(* littlefs_api_prog and littlefs_api_erase of the two filesystem.c of the *)
(* tree, prog and erase with one action per statement.  The cache, OSPI    *)
(* and flash primitives are the platform's; they are modelled by their     *)
(* effect on the cache, the mapping mode and the flash.                    *)
(***************************************************************************)
\* cfg.block_size
BLOCK_SIZE == 4096

\* cfg.prog_size = LFS_CACHE_SIZE, the program granularity
PROG_SIZE == 256

\* filesystem_partition - &__EXTFLASH_BASE__: fixed by the linker, a multiple
\* of 4096 by the aligned(4096) attribute of filesystem_partition.
PARTITION_OFFSET == 4096

\* Largest block number LittleFS passes to a callback.
MaxBlock == 1

Blocks == 0 .. MaxBlock

\* Offsets within a block passed to littlefs_api_prog: multiples of the
\* program granularity, and one that is not.
Offsets == {0, PROG_SIZE, PROG_SIZE \div 2}

\* Offsets within a block passed to littlefs_api_read.
ReadOffsets == {0, PROG_SIZE}

Builds == {"part_001", "Core"}

\* uint32_t address of littlefs_api_prog (off = 0 for littlefs_api_erase);
\* the partition is 1 MiB, the sum stays far below 2^32.
Address(block, off) == PARTITION_OFFSET + block * BLOCK_SIZE + off

\* An alignment test that accepts every address.
ProgAligned_any(address) == TRUE

\* (address & 0xFF) == 0
ProgAligned(address) == address % 256 = 0

\* (address & (4*1024 - 1)) == 0
EraseAligned(address) == address % (4 * 1024) = 0

\* The flash primitive of callback fn.
Primitive(fn) == IF fn = "prog" THEN "OSPI_Program" ELSE "OSPI_EraseSync"

\* The statements of callback fn in build b after the address computation,
\* in program order.
Body(b, fn) ==
    IF b = "part_001"
    THEN << "assert", "SCB_DisableDCache", "SCB_InvalidateDCache",
            "OSPI_DisableMemoryMappedMode", Primitive(fn),
            "OSPI_EnableMemoryMappedMode", "SCB_EnableDCache", "return" >>
    ELSE << "OSPI_DisableMemoryMappedMode", Primitive(fn),
            "OSPI_EnableMemoryMappedMode", "return" >>

\* The callback in progress is about to execute statement stmt.
At(stmt) ==
    /\ ~halted
    /\ cb.pc > 0
    /\ Body(build, cb.fn)[cb.pc] = stmt

\* Statement stmt, a call of a platform primitive, has been executed.
Advance(stmt) == cb' = [cb EXCEPT !.pc = @ + 1, !.trace = Append(@, stmt)]

\* The variables of the file API, which the callbacks do not touch.
client ==
    << file_handles_used_bitmask, file_index_using_compression, file_handles,
       filesystem_partition, lfs, lfs_asserts, nformat, held, last, inits, ios,
       misuses, rt >>

\* LittleFS calls cfg.prog or cfg.erase.
CallbackEntry ==
    /\ ~halted
    /\ cb.pc = 0
    /\ \E fn \in {"prog", "erase"}, block \in Blocks, off \in Offsets :
          /\ fn = "erase" => off = 0
          /\ cb' = [fn |-> fn, pc |-> 1, block |-> block, off |-> off,
                    address |-> Address(block, off), trace |-> << >>]
    /\ UNCHANGED << client, halted, build, dcache_enabled, dcache_lines,
                    mmap_mode, ospi_last >>

AssertStep ==
    /\ At("assert")
    /\ IF (cb.fn = "prog" /\ ProgAligned(cb.address))
          \/ (cb.fn = "erase" /\ EraseAligned(cb.address))
       THEN /\ cb' = [cb EXCEPT !.pc = @ + 1]
            /\ halted' = halted
       ELSE /\ cb' = cb
            /\ halted' = TRUE
    /\ UNCHANGED << client, build, dcache_enabled, dcache_lines, mmap_mode,
                    ospi_last >>

DisableDCacheStep ==
    /\ At("SCB_DisableDCache")
    /\ dcache_enabled' = FALSE
    /\ Advance("SCB_DisableDCache")
    /\ UNCHANGED << client, halted, build, dcache_lines, mmap_mode, ospi_last >>

InvalidateDCacheStep ==
    /\ At("SCB_InvalidateDCache")
    /\ dcache_lines' = {}
    /\ Advance("SCB_InvalidateDCache")
    /\ UNCHANGED << client, halted, build, dcache_enabled, mmap_mode, ospi_last >>

DisableMemoryMappedModeStep ==
    /\ At("OSPI_DisableMemoryMappedMode")
    /\ mmap_mode' = FALSE
    /\ Advance("OSPI_DisableMemoryMappedMode")
    /\ UNCHANGED << client, halted, build, dcache_enabled, dcache_lines,
                    ospi_last >>

\* OSPI_Program(address, buffer, size)
ProgramStep ==
    /\ At("OSPI_Program")
    /\ ospi_last' = [op |-> "OSPI_Program", address |-> cb.address,
                     mmap_mode |-> mmap_mode,
                     dcache_enabled |-> dcache_enabled]
    /\ Advance("OSPI_Program")
    /\ UNCHANGED << client, halted, build, dcache_enabled, dcache_lines,
                    mmap_mode >>

\* OSPI_EraseSync(address, c->block_size)
EraseStep ==
    /\ At("OSPI_EraseSync")
    /\ ospi_last' = [op |-> "OSPI_EraseSync", address |-> cb.address,
                     mmap_mode |-> mmap_mode,
                     dcache_enabled |-> dcache_enabled]
    /\ Advance("OSPI_EraseSync")
    /\ UNCHANGED << client, halted, build, dcache_enabled, dcache_lines,
                    mmap_mode >>

EnableMemoryMappedModeStep ==
    /\ At("OSPI_EnableMemoryMappedMode")
    /\ mmap_mode' = TRUE
    /\ Advance("OSPI_EnableMemoryMappedMode")
    /\ UNCHANGED << client, halted, build, dcache_enabled, dcache_lines,
                    ospi_last >>

EnableDCacheStep ==
    /\ At("SCB_EnableDCache")
    /\ dcache_enabled' = TRUE
    /\ Advance("SCB_EnableDCache")
    /\ UNCHANGED << client, halted, build, dcache_lines, mmap_mode, ospi_last >>

\* return 0: the trace of the callback that returned stays in cb.
ReturnStep ==
    /\ At("return")
    /\ cb' = [cb EXCEPT !.pc = 0]
    /\ UNCHANGED << client, halted, build, dcache_enabled, dcache_lines,
                    mmap_mode, ospi_last >>

\* littlefs_api_read: a memcpy from the memory-mapped flash, between two
\* callbacks; the enabled data cache keeps a line of what was read.  A read
\* of unmapped flash faults.
ApiRead ==
    /\ ~halted
    /\ cb.pc = 0
    /\ \E block \in Blocks, off \in ReadOffsets :
          IF mmap_mode
          THEN /\ dcache_lines' = IF dcache_enabled
                                  THEN dcache_lines \cup {Address(block, off)}
                                  ELSE dcache_lines
               /\ halted' = halted
          ELSE /\ dcache_lines' = dcache_lines
               /\ halted' = TRUE
    /\ UNCHANGED << client, build, dcache_enabled, mmap_mode, ospi_last, cb >>

FlashInit ==
    /\ ProgramInit
    /\ build \in Builds
    /\ filesystem_partition = StoreWith(Paths)
    /\ lfs_asserts = TRUE

FlashNext ==
    \/ CallbackEntry
    \/ AssertStep
    \/ DisableDCacheStep
    \/ InvalidateDCacheStep
    \/ DisableMemoryMappedModeStep
    \/ ProgramStep
    \/ EraseStep
    \/ EnableMemoryMappedModeStep
    \/ EnableDCacheStep
    \/ ReturnStep
    \/ ApiRead

FlashSpec == FlashInit /\ [][FlashNext]_vars

(***************************************************************************)
(* Compressed-handle specification: the pool-level calls, and              *)
(* filesystem_write / filesystem_read / filesystem_seek on a handle of the *)
(* pool, the compression owner included.                                   *)
(***************************************************************************)
HandleWriteCall ==
    /\ ~halted
    /\ \E file \in Slots, data \in Data :
          /\ held[file] > 0
          /\ LET w == filesystem_write(M, file, data)
             IN  /\ Becomes(w.m)
                 /\ last' = [NoCall EXCEPT !.op = "write", !.ret = w.ret,
                                           !.file = file]
    /\ UNCHANGED << held, inits, ios, harness, device >>

HandleReadCall ==
    /\ ~halted
    /\ \E file \in Slots, size \in 1 .. MaxLen :
          /\ held[file] > 0
          /\ LET r == filesystem_read(M, file, size)
             IN  /\ Becomes(r.m)
                 /\ last' = [NoCall EXCEPT !.op = "read", !.ret = r.ret,
                                           !.file = file]
    /\ UNCHANGED << held, inits, ios, harness, device >>

HandleSeekCall ==
    /\ ~halted
    /\ \E file \in Slots, off \in {0, 1} :
          /\ held[file] > 0
          /\ LET k == filesystem_seek(M, file, off, "LFS_SEEK_SET")
             IN  /\ Becomes(k.m)
                 /\ last' = [NoCall EXCEPT !.op = "seek", !.ret = k.ret,
                                           !.file = file]
    /\ UNCHANGED << held, inits, ios, harness, device >>

CompressedNext ==
    \/ AcquireCall
    \/ ReleaseCall
    \/ CloseOwnerCall
    \/ HandleWriteCall
    \/ HandleReadCall
    \/ HandleSeekCall

CompressedSpec == PoolInit /\ [][CompressedNext]_vars

(***************************************************************************)
(* src/Core/Src/filesystem.c, the filesystem.c without the handle pool:    *)
(* filesystem_init and the one-shot filesystem_write(path, data, size).    *)
(* Its local lfs_file_t `file` is kept in handles[0] of the record.        *)
(***************************************************************************)
\* The LittleFS error of a failing flash operation.
LFS_ERR_IO == -5

\* Which LittleFS call of a one-shot write the flash makes fail.
Faults == {"none", "open", "write", "close"}

Core_filesystem_init(m, device_ok) ==
    Then(lfs_mount(m),
    LAMBDA mt :
    IF mt.err = 0
    THEN mt.m
    ELSE Then(lfs_format(mt.m, device_ok),
         LAMBDA fm :
         IF fm.err # 0 THEN Halt(fm.m)
         ELSE Then(lfs_mount(fm.m),
              LAMBDA mt2 :
              IF mt2.err # 0 THEN Halt(mt2.m) ELSE mt2.m)))

\* lfs_file_close(&lfs, &file) of the one-shot write: 0, or the error of the
\* failing flash, in which case nothing is committed.
Core_lfs_file_close(m, attr_value, fault) ==
    IF fault = "close"
    THEN [m |-> [m EXCEPT !.lfs.mlist = @ \ {0}], err |-> LFS_ERR_IO]
    ELSE lfs_file_close(m, 0, attr_value)

\* The final assertion of the one-shot write, on the value err that
\* lfs_file_close returned, tested as written in the source.
Core_close_assert(err) == err # 0

\* current_time: the reading of GW_GetUnixTime().  The local current_time
\* is alive at the close, so the bytes LittleFS reads through
\* file_attrs[0].buffer are current_time.
Core_filesystem_write(m, path, data, current_time, fault) ==
    IF current_time = 0 THEN Halt(m)
    ELSE
    Then(IF fault = "open" THEN [m |-> m, err |-> LFS_ERR_IO]
         ELSE lfs_file_opencfg([m EXCEPT !.handles[0] = ZeroHandle], 0, path,
                               {"LFS_O_WRONLY", "LFS_O_CREAT"}),
    LAMBDA o :
    IF o.m.halted \/ o.err # 0 THEN Halt(o.m)
    ELSE
    Then(IF fault = "write" THEN [m |-> o.m, ret |-> LFS_ERR_IO]
         ELSE lfs_file_write(o.m, 0, data),
    LAMBDA w :
    IF w.m.halted \/ w.ret # Len(data) THEN Halt(w.m)
    ELSE
    Then(Core_lfs_file_close(w.m, current_time, fault),
    LAMBDA c :
    IF c.m.halted \/ ~Core_close_assert(c.err) THEN Halt(c.m) ELSE c.m)))

CoreInit ==
    /\ ProgramInit
    /\ build = "Core"

CoreInitCall ==
    /\ ~halted
    /\ inits < MaxInits
    /\ \E device_ok \in BOOLEAN :
          /\ Becomes(Core_filesystem_init(M, device_ok))
          /\ last' = [NoCall EXCEPT !.op = "init", !.device_ok = device_ok]
    /\ inits' = inits + 1
    /\ UNCHANGED << held, ios, harness, device >>

\* last'.device_ok: the flash made no LittleFS call of the write fail.
CoreWriteCall ==
    /\ ~halted
    /\ lfs.mounted
    /\ \E path \in Paths, data \in Data, t \in ClockVals, fault \in Faults :
          /\ Becomes(Core_filesystem_write(M, path, data, t, fault))
          /\ last' = [NoCall EXCEPT !.op = "write", !.path = path,
                                    !.write_mode = TRUE,
                                    !.ret = Len(data),
                                    !.current_time = t,
                                    !.device_ok = (fault = "none")]
    /\ UNCHANGED << held, inits, ios, harness, device >>

CoreNext ==
    \/ CoreInitCall
    \/ CoreWriteCall

CoreSpec == CoreInit /\ [][CoreNext]_vars

(***************************************************************************)
(* Properties                                                              *)
(***************************************************************************)
FreeSlotExists ==
    \E i \in Slots : ~BitIsSet(file_handles_used_bitmask, 2 ^ i)

\* C1: pool availability.  After one filesystem_init, an open without
\* compression that is made while fewer than MAX_OPEN_FILES handles are open,
\* and that does not end in a fatal assertion, returns a handle.
C1_PoolAvailability ==
    [][(last'.op = "open" /\ ~last'.use_compression /\ ~halted'
        /\ inits = 1 /\ Count < MAX_OPEN_FILES) => last'.ret # NULL]_vars

\* C2: no aliasing.  After one filesystem_init, no pool slot is referred to
\* by two handles that are both open.
C2_NoAliasing ==
    inits = 1 => \A i \in Slots : held[i] <= 1

\* C3: capacity bound.  At most MAX_OPEN_FILES handles are open at any time,
\* and an open made while MAX_OPEN_FILES handles are open returns NULL and
\* changes neither the allocation bitmask nor the compression owner.
C3_CapacityBound ==
    /\ [](Count <= MAX_OPEN_FILES)
    /\ [][(last'.op = "open" /\ Count = MAX_OPEN_FILES) =>
            /\ last'.ret = NULL
            /\ ~halted'
            /\ file_handles_used_bitmask' = file_handles_used_bitmask
            /\ file_index_using_compression' = file_index_using_compression]_vars

\* An open has just been refused while MAX_OPEN_FILES handles are open.
C3_Witness ==
    /\ last.op = "open"
    /\ last.ret = NULL
    /\ ~halted
    /\ Count = MAX_OPEN_FILES

\* C4: compression-busy rollback.  A compressed acquire made while the
\* compression slot is owned and a slot is free returns NULL and leaves the
\* allocation bitmask and the compression owner as they were.
C4_BusyRollback ==
    [][(last'.op = "acquire" /\ last'.use_compression
        /\ file_index_using_compression >= 0 /\ FreeSlotExists) =>
            /\ last'.ret = NULL
            /\ file_handles_used_bitmask' = file_handles_used_bitmask
            /\ file_index_using_compression' = file_index_using_compression]_vars

\* C5: compression exclusivity.  At most one slot owns the compression slot;
\* while it is owned, a compressed acquire returns NULL and no acquire
\* changes the owner.
C5_CompressionExclusive ==
    /\ [](/\ file_index_using_compression \in {-1} \cup Slots
          /\ Cardinality({i \in Slots : file_is_using_compression(M, i)}) <= 1)
    /\ [][(last'.op = "acquire" /\ file_index_using_compression >= 0) =>
            /\ file_index_using_compression' = file_index_using_compression
            /\ last'.use_compression => last'.ret = NULL]_vars

\* A compressed acquire has just been refused because the slot is owned by
\* a handle that is still held.
C5_Witness ==
    /\ last.op = "acquire"
    /\ last.use_compression
    /\ last.ret = NULL
    /\ file_index_using_compression \in Slots
    /\ held[file_index_using_compression] > 0

\* C6: closing the compression owner frees the slot.  filesystem_close on
\* the handle that owns the compression slot completes, and afterwards the
\* owner is none and the handle's allocation bit is clear.
C6_CloseFreesCompression ==
    [][(last'.op = "close" /\ file_is_using_compression(M, last'.file)) =>
            /\ ~halted'
            /\ file_index_using_compression' = -1
            /\ ~BitIsSet(file_handles_used_bitmask', 2 ^ last'.file)]_vars

\* C7: NotFound is recoverable.  A read-mode, uncompressed open of a path
\* that does not exist (with a valid clock) returns NULL without a fatal
\* assertion and leaves the allocation bitmask as it was.
C7_NotFoundRecoverable ==
    [][(last'.op = "open" /\ ~last'.write_mode /\ ~last'.use_compression
        /\ last'.current_time # 0
        /\ last'.path \notin filesystem_partition.exists) =>
            /\ ~halted'
            /\ last'.ret = NULL
            /\ file_handles_used_bitmask' = file_handles_used_bitmask]_vars

\* C8: first boot.  filesystem_init on an unformatted region, with a valid
\* clock and a flash that accepts the format, formats, mounts and returns
\* without a fatal assertion.
C8_FirstBoot ==
    [][(last'.op = "init" /\ ~filesystem_partition.formatted
        /\ last'.current_time # 0 /\ last'.device_ok) =>
            /\ ~halted'
            /\ lfs'.mounted
            /\ nformat' = nformat + 1]_vars

\* C9 as stated: format happens only in a filesystem_init whose first mount
\* fails, and a second filesystem_init on a store that mounts performs no
\* format and leaves the content of every existing file unchanged.
C9_IdempotentMount ==
    /\ [][nformat' # nformat =>
            (last'.op = "init" /\ ~filesystem_partition.formatted)]_vars
    /\ [][(last'.op = "init" /\ inits >= 1 /\ filesystem_partition.formatted) =>
            /\ nformat' = nformat
            /\ \A p \in filesystem_partition.exists :
                  /\ p \in filesystem_partition'.exists
                  /\ filesystem_partition'.data[p] = filesystem_partition.data[p]]_vars

\* C9 amended: as C9, but the content is unchanged of every existing file
\* other than boot_counter (which filesystem_init rewrites).
C9_IdempotentMountAmended ==
    /\ [][nformat' # nformat =>
            (last'.op = "init" /\ ~filesystem_partition.formatted)]_vars
    /\ [][(last'.op = "init" /\ inits >= 1 /\ filesystem_partition.formatted) =>
            /\ nformat' = nformat
            /\ \A p \in filesystem_partition.exists :
                  /\ p \in filesystem_partition'.exists
                  /\ p # "boot_counter" =>
                        filesystem_partition'.data[p] = filesystem_partition.data[p]]_vars

\* A second filesystem_init has returned on a store that holds another file
\* and was never formatted.
C9_Witness ==
    /\ last.op = "init"
    /\ inits = 2
    /\ ~halted
    /\ nformat = 0
    /\ "sav" \in filesystem_partition.exists

\* C10: round trip.  After open(path, write), write of data, close,
\* open(path, read) and a read of Len(data) bytes, the read returns
\* Len(data) and the bytes read are data, whatever the path held before.
C10_RoundTrip ==
    (rt.stage = 5 /\ ~halted) => (rt.ret = Len(rt.data) /\ rt.got = rt.data)

\* The read-back has completed on a path that held other, longer content
\* before the sequence, after two write sessions.
C10_Witness ==
    /\ rt.stage = 5
    /\ ~halted
    /\ rt.rounds = 2
    /\ rt.path = "sav"
    /\ rt.data = << 1 >>
    /\ Len(filesystem_partition.data["sav"]) = 2

\* The steps of the coherency bracket around the flash primitive of fn.
Bracket(fn) ==
    << "SCB_DisableDCache", "SCB_InvalidateDCache",
       "OSPI_DisableMemoryMappedMode", Primitive(fn),
       "OSPI_EnableMemoryMappedMode", "SCB_EnableDCache" >>

\* C11: flash coherency bracket.  In both filesystem.c of the tree, no
\* program or erase is issued while the flash is memory-mapped or the data
\* cache is enabled, and a callback that returns has executed exactly the
\* steps of the bracket, in order, and leaves the flash memory-mapped and
\* the data cache enabled.
C11_CoherencyBracket ==
    /\ [](ospi_last.op # "none" =>
             (~ospi_last.mmap_mode /\ ~ospi_last.dcache_enabled))
    /\ [][(cb.pc > 0 /\ cb'.pc = 0) =>
             /\ cb.trace = Bracket(cb.fn)
             /\ mmap_mode'
             /\ dcache_enabled']_vars

\* C12: alignment, in the filesystem.c with the assertions (part_001).
\* Every address the flash erases is a multiple of 4096 and every address it
\* programs a multiple of 256; the address passed is the computed one; a
\* callback whose computed address is misaligned ends in the fatal
\* assertion, with the cache, the mapping mode and the flash as they were.
C12_Alignment ==
    /\ []((build = "part_001" /\ ospi_last.op = "OSPI_EraseSync") =>
             ospi_last.address % BLOCK_SIZE = 0)
    /\ []((build = "part_001" /\ ospi_last.op = "OSPI_Program") =>
             ospi_last.address % PROG_SIZE = 0)
    /\ [][(build = "part_001" /\ ospi_last' # ospi_last) =>
             ospi_last'.address =
                 PARTITION_OFFSET + cb.block * BLOCK_SIZE + cb.off]_vars
    /\ [][(build = "part_001" /\ cb.pc = 1
           /\ cb.address % (IF cb.fn = "prog" THEN PROG_SIZE ELSE BLOCK_SIZE) # 0) =>
             /\ halted'
             /\ UNCHANGED << dcache_enabled, dcache_lines, mmap_mode,
                             ospi_last >>]_vars

\* A program of a misaligned address has been rejected after a read warmed
\* the cache and an earlier program went through.
C12_Witness ==
    /\ build = "part_001"
    /\ halted
    /\ cb.fn = "prog"
    /\ cb.address % PROG_SIZE # 0
    /\ ospi_last.op = "OSPI_Program"
    /\ dcache_enabled
    /\ mmap_mode

\* What a 4-byte read of a local variable of a function that has returned
\* can yield: the frame is dead, any value.
DeadFrameValues == ClockVals

\* The values a read through file_attrs[0].buffer of slot h can yield once
\* filesystem_open has returned: the buffer is &current_time, a local of
\* filesystem_open.
AttrValues(handles, h) ==
    IF handles[h].attr.buffer = "current_time" THEN DeadFrameValues ELSE {}

\* C13: timestamp at open.  A handle returned by filesystem_open carries one
\* attribute of type 't' and size 4 whose value is the non-zero clock
\* reading of that open; an open during which the clock reads 0 returns no
\* handle.
C13_TimestampAtOpen ==
    /\ [][(last'.op = "open" /\ last'.ret \in Slots) =>
             /\ last'.current_time # 0
             /\ file_handles'[last'.ret].cfg
             /\ file_handles'[last'.ret].attr.type = "t"
             /\ file_handles'[last'.ret].attr.size = 4
             /\ AttrValues(file_handles', last'.ret) = {last'.current_time}]_vars
    /\ [][(last'.op = "open" /\ last'.current_time = 0) =>
             last'.ret = NULL]_vars

\* C14: compressed handles never do raw I/O.  filesystem_write,
\* filesystem_read and filesystem_seek on the handle that owns the
\* compression slot end in the fatal assertion: nothing is returned, and
\* neither the file objects, the LittleFS instance nor the flash change.
C14_CompressedNoRawIO ==
    [][(last'.op \in {"write", "read", "seek"}
        /\ file_is_using_compression(M, last'.file)) =>
            /\ halted'
            /\ file_handles' = file_handles
            /\ lfs' = lfs
            /\ filesystem_partition' = filesystem_partition]_vars

\* A seek on the held compression owner has just ended in the fatal
\* assertion, in a build whose LittleFS would have carried it out.
C14_Witness ==
    /\ last.op = "seek"
    /\ halted
    /\ ~lfs_asserts
    /\ held[last.file] > 0
    /\ file_is_using_compression(M, last.file)

\* C15: untracked release is fatal.  release_file_handle on a pointer
\* outside the pool, or on a slot whose allocation bit is clear, ends in the
\* fatal assertion and changes neither the allocation bitmask nor the
\* compression owner.
C15_UntrackedReleaseFatal ==
    [][(last'.op = "release"
        /\ (last'.file \notin Slots
            \/ ~BitIsSet(file_handles_used_bitmask, 2 ^ last'.file))) =>
            /\ halted'
            /\ file_handles_used_bitmask' = file_handles_used_bitmask
            /\ file_index_using_compression' = file_index_using_compression]_vars

\* C16: release frame condition.  release_file_handle on the handle of an
\* allocated slot i clears allocation bit i, leaves the other slots' bits
\* unchanged, and changes the compression owner only if slot i is the owner.
C16_ReleaseFrame ==
    [][(last'.op = "release" /\ last'.file \in Slots
        /\ BitIsSet(file_handles_used_bitmask, 2 ^ last'.file)) =>
            /\ ~BitIsSet(file_handles_used_bitmask', 2 ^ last'.file)
            /\ \A j \in Slots \ {last'.file} :
                  BitIsSet(file_handles_used_bitmask', 2 ^ j)
                      = BitIsSet(file_handles_used_bitmask, 2 ^ j)
            /\ file_index_using_compression' # file_index_using_compression
                  => file_index_using_compression = last'.file]_vars

\* C17: owner consistency.  As long as every release is of a held handle,
\* the compression owner is -1 or the index of a slot whose allocation bit
\* is set, and a handle acquired without compression is not reported as the
\* compression owner.
C17_OwnerConsistency ==
    /\ [](misuses = 0 =>
            \/ file_index_using_compression = -1
            \/ /\ file_index_using_compression \in Slots
               /\ BitIsSet(file_handles_used_bitmask,
                           2 ^ file_index_using_compression))
    /\ [][(last'.op = "acquire" /\ ~last'.use_compression
           /\ misuses = 0 /\ last'.ret \in Slots) =>
             ~file_is_using_compression([M EXCEPT
                    !.comp = file_index_using_compression'], last'.ret)]_vars

\* C18: attribute buffer lifetime.  When a handle that filesystem_open has
\* just returned in write mode is closed, the timestamp committed to the
\* file is the clock reading of that open.
C18_AttrBufferLifetime ==
    [][(last.op = "open" /\ last.write_mode /\ last.ret \in Slots
        /\ last'.op = "close" /\ last'.file = last.ret /\ ~halted') =>
            filesystem_partition'.time[last.path] = last.current_time]_vars

\* C19: the one-shot write completes.  In src/Core/Src/filesystem.c,
\* filesystem_write(path, data, size) called with a non-zero clock, the
\* open, the write and the close all succeeding, returns without a fatal
\* assertion.
C19_OneShotWriteCompletes ==
    [][(last'.op = "write" /\ last'.current_time # 0 /\ last'.device_ok) =>
            ~halted']_vars

====
